---- MODULE Spec2Model ----
(***************************************************************************)
(* A model of dolphin's driver registry (dolphin/drivers/manager.py) and   *)
(* of its periodical task manager (dolphin/task_manager/manager.py).       *)
(*                                                                         *)
(* Handlers are run by a fixed set of workers (the green threads of one    *)
(* service and the peers of a cluster).  A handler is cut into steps at    *)
(* the calls on which a worker can be descheduled: the calls to the        *)
(* database, to the device and to the coordination backend.                *)
(***************************************************************************)
EXTENDS Integers, FiniteSets, Sequences, TLC

\* ------------------------------------------------------------------ bounds
MaxStorages == 2
MaxDrivers == 3

\* The workers that run handlers: two green threads of a service, or two
\* peers of a cluster.
Workers == {"w1", "w2"}
StorageIds == 1..MaxStorages

\* Python's None, for a driver and a storage id.
NoneVal == 0

\* The coordination lock when no worker holds it.
Unlocked == "unlocked"

\* The "manufacturer_model" keys a request can carry.
Models == {"fake_storage", "acme_x1"}

\* The resource task classes named by a sync request.
TaskKinds == {"StorageDeviceTask", "StoragePoolTask"}

\* DRIVER_MAPPING of dolphin/drivers/manager.py.
DRIVER_MAPPING ==
    [k \in {"fake_storage"} |-> "dolphin.drivers.fake_storage.FakeStorage"]

\* The passwords a register_info can carry, as the client typed them.  What
\* the password is changes no branch of the code, so one value stands for all.
Passwords == {"Pass1234"}

\* What a device call or a database call can raise.
DeviceErrors == {"TransportError", "AuthError"}
DbErrors == {"DBError"}

\* ------------------------------------------------------------------- state
VARIABLES
    driver_factory,     \* DriverManager.driver_factory of the registry
    storages,           \* db: persisted Storage records, id -> manufacturer_model
    registry_contexts,  \* db: persisted register_info records
    nextDriver,         \* the next driver instance to be constructed
    pc,                 \* each worker's position
    op,                 \* the handler a worker runs
    sid,                \* local: storage_id
    key,                \* local: driver_key, or resource_task for a sync
    drv,                \* local: driver
    err,                \* the exception a handler left with, "" when none
    ret,                \* the value a handler returned
    lock,               \* holder of the coordination lock 'lock-task-example'
    ranBody,            \* whether the worker's tick ran the task body
    logins,             \* logins made by get_storage, per id, since the
                        \* last remove_storage_in_cache of the id
    removed,            \* ids for which remove_storage_in_cache has run
    gotten,             \* ids for which a get_storage returned since then
    failure,            \* the exception raised inside a handler, "" when none
    logged,             \* whether the handler logged that exception
    call,               \* adapter: the operation called and its inputs
    result,             \* adapter: what the last call gave
    prev,               \* adapter: the call before it and what it gave
    now,                \* the clock, in ticks
    issued              \* the remote commands sent by the running operation

vars == <<driver_factory, storages, registry_contexts, nextDriver, pc, op, sid,
          key, drv, err, ret, lock, ranBody, logins, removed, gotten, failure,
          logged, call, result, prev, now, issued>>

locals == <<sid, key, drv, err, ret, failure, logged>>
shared == <<driver_factory, storages, registry_contexts, nextDriver>>
history == <<logins, removed, gotten>>
sched == <<lock, ranBody>>
adapter == <<call, result, prev, now, issued>>
manager == <<shared, pc, op, locals, sched, history>>

\* ----------------------------------------------------------------- helpers
\* dict[k] = v
Put(f, k, v) == [x \in DOMAIN f \cup {k} |-> IF x = k THEN v ELSE f[x]]

\* DriverManager.__init__: a new, empty driver_factory.
DriverManagerInit == [x \in {} |-> NoneVal]

\* driver_factory.get: the cached driver of an id, None when there is none.
Cached(factory, s) == IF s \in DOMAIN factory THEN factory[s] ELSE NoneVal

\* A handler leaves: with a value, or with an exception.
Leave(p, value, exception) ==
    /\ pc' = [pc EXCEPT ![p] = "done"]
    /\ ret' = [ret EXCEPT ![p] = value]
    /\ err' = [err EXCEPT ![p] = exception]
    /\ failure' = [failure EXCEPT ![p] = exception]
    /\ logged' = [logged EXCEPT ![p] = FALSE]

\* `except Exception as e: LOG.exception(...); raise e`: the exception is
\* logged and raised again.
LeaveLogged(p, exception) ==
    /\ pc' = [pc EXCEPT ![p] = "done"]
    /\ ret' = [ret EXCEPT ![p] = "None"]
    /\ err' = [err EXCEPT ![p] = exception]
    /\ failure' = [failure EXCEPT ![p] = exception]
    /\ logged' = [logged EXCEPT ![p] = TRUE]

\* No adapter call has been made.
NoCall == [op |-> "none"]
NoResult == [kind |-> "none", value |-> << >>, exc |-> ""]
Returned(v) == [kind |-> "return", value |-> v, exc |-> ""]
Raised(e) == [kind |-> "raise", value |-> << >>, exc |-> e]

ManagerInit ==
    /\ driver_factory = DriverManagerInit
    /\ storages = [x \in {} |-> ""]
    /\ registry_contexts = {}
    /\ nextDriver = 1
    /\ pc = [p \in Workers |-> "idle"]
    /\ op = [p \in Workers |-> ""]
    /\ sid = [p \in Workers |-> NoneVal]
    /\ key = [p \in Workers |-> ""]
    /\ drv = [p \in Workers |-> NoneVal]
    /\ err = [p \in Workers |-> ""]
    /\ ret = [p \in Workers |-> "None"]
    /\ lock = Unlocked
    /\ ranBody = [p \in Workers |-> FALSE]
    /\ logins = [s \in StorageIds |-> 0]
    /\ removed = {}
    /\ gotten = {}
    /\ failure = [p \in Workers |-> ""]
    /\ logged = [p \in Workers |-> FALSE]

Init ==
    /\ ManagerInit
    /\ call = NoCall
    /\ result = NoResult
    /\ prev = [call |-> NoCall, result |-> NoResult]
    /\ now = 0
    /\ issued = << >>

\* The caller takes the result; the worker is free for the next request.
Return(p) ==
    /\ pc[p] = "done"
    /\ pc' = [pc EXCEPT ![p] = "idle"]
    /\ op' = [op EXCEPT ![p] = ""]
    /\ sid' = [sid EXCEPT ![p] = NoneVal]
    /\ key' = [key EXCEPT ![p] = ""]
    /\ drv' = [drv EXCEPT ![p] = NoneVal]
    /\ err' = [err EXCEPT ![p] = ""]
    /\ ret' = [ret EXCEPT ![p] = "None"]
    /\ failure' = [failure EXCEPT ![p] = ""]
    /\ logged' = [logged EXCEPT ![p] = FALSE]
    /\ ranBody' = [ranBody EXCEPT ![p] = FALSE]
    /\ UNCHANGED <<shared, history, lock>>
    /\ UNCHANGED adapter

\* The service restarts: the registry is constructed anew, the database stays.
Restart ==
    /\ \A p \in Workers : pc[p] = "idle"
    /\ driver_factory # DriverManagerInit
    /\ driver_factory' = DriverManagerInit
    /\ UNCHANGED <<storages, registry_contexts, nextDriver, pc, op, locals,
                   sched, history>>
    /\ UNCHANGED adapter

\* The ids the database has handed out: an id is never given twice, also
\* after its storage row is deleted.
UsedIds == DOMAIN storages \cup {r.storage_id : r \in registry_contexts}

\* ------------------------------------------- DriverManager.register_storage
\* Lines 35-41: the driver class of the key, the driver, its registration hook.
RegisterStorageBegin(p) ==
    /\ pc[p] = "idle"
    /\ nextDriver <= MaxDrivers
    /\ \E k \in Models, hook \in {"ok"} \cup DeviceErrors :
        /\ op' = [op EXCEPT ![p] = "register_storage"]
        /\ key' = [key EXCEPT ![p] = k]
        /\ IF k \notin DOMAIN DRIVER_MAPPING
             THEN /\ LeaveLogged(p, "KeyError")
                  /\ UNCHANGED <<drv, nextDriver>>
             ELSE /\ drv' = [drv EXCEPT ![p] = nextDriver]
                  /\ nextDriver' = nextDriver + 1
                  /\ IF hook = "ok"
                       THEN /\ pc' = [pc EXCEPT ![p] = "reg_create"]
                            /\ UNCHANGED <<ret, err, failure, logged>>
                       ELSE LeaveLogged(p, hook)
    /\ UNCHANGED <<driver_factory, storages, registry_contexts, sid, sched,
                   history>>
    /\ UNCHANGED adapter

\* Line 42: storage = db.storage_create(storage_info).
RegisterStorageCreate(p) ==
    /\ pc[p] = "reg_create"
    /\ \/ /\ \E s \in StorageIds \ UsedIds :
                /\ \A t \in StorageIds \ UsedIds : s <= t
                /\ storages' = Put(storages, s, key[p])
                /\ sid' = [sid EXCEPT ![p] = s]
          /\ pc' = [pc EXCEPT ![p] = "reg_context"]
          /\ UNCHANGED <<ret, err, failure, logged>>
       \/ /\ LeaveLogged(p, "DBError")
          /\ UNCHANGED <<storages, sid>>
    /\ UNCHANGED <<driver_factory, registry_contexts, nextDriver, op, key, drv,
                   sched, history>>
    /\ UNCHANGED adapter

\* Lines 45-46: register_info["storage_id"] = storage["id"], and the dict is
\* saved as it came from the client, its password included.  (The password
\* of the request is read here for the first time, so it is drawn here.)
RegisterStorageContext(p) ==
    /\ pc[p] = "reg_context"
    /\ \/ /\ \E pw \in Passwords :
                registry_contexts' = registry_contexts \cup
                  {[storage_id |-> sid[p], manufacturer_model |-> key[p],
                    password |-> pw]}
          /\ pc' = [pc EXCEPT ![p] = "reg_cache"]
          /\ UNCHANGED <<ret, err, failure, logged>>
       \/ /\ LeaveLogged(p, "DBError")
          /\ UNCHANGED registry_contexts
    /\ UNCHANGED <<driver_factory, storages, nextDriver, op, sid, key, drv,
                   sched, history>>
    /\ UNCHANGED adapter

\* register_storage with the factory update of line 50 left out.
RegisterStorageCacheDropped(p) ==
    /\ pc[p] = "reg_cache"
    /\ Leave(p, "storage_info", "")
    /\ UNCHANGED <<shared, op, sid, key, drv, sched, history>>
    /\ UNCHANGED adapter

\* Lines 49-51: the driver goes into the factory; storage_info is returned.
RegisterStorageCache(p) ==
    /\ pc[p] = "reg_cache"
    /\ driver_factory' = Put(driver_factory, sid[p], drv[p])
    /\ Leave(p, "storage_info", "")
    /\ UNCHANGED <<storages, registry_contexts, nextDriver, op, sid, key, drv,
                   sched, history>>
    /\ UNCHANGED adapter

\* ------------------------------------------------ DriverManager.get_storage
\* NetAppCmodeDriver.__init__: constructing a driver logs in to the device.
DriverInit(s) == [logins EXCEPT ![s] = @ + 1]

\* Lines 57-61: the driver of the id is read from the factory.  With a driver
\* found the body of `if driver is None` is skipped and the function ends
\* without a return statement: the caller gets None.
GetStorageLookup(p) ==
    /\ pc[p] = "idle"
    /\ \E s \in StorageIds :
        /\ op' = [op EXCEPT ![p] = "get_storage"]
        /\ sid' = [sid EXCEPT ![p] = s]
        /\ drv' = [drv EXCEPT ![p] = Cached(driver_factory, s)]
        /\ IF Cached(driver_factory, s) # NoneVal
             THEN /\ Leave(p, "None", "")
                  /\ gotten' = gotten \cup {s}
             ELSE /\ pc' = [pc EXCEPT ![p] = "get_load"]
                  /\ UNCHANGED <<ret, err, failure, logged, gotten>>
    /\ UNCHANGED <<shared, key, sched, logins, removed>>
    /\ UNCHANGED adapter

\* Line 63: storage = db.storage_get(storage_id).
GetStorageLoad(p) ==
    /\ pc[p] = "get_load"
    /\ \/ /\ sid[p] \in DOMAIN storages
          /\ key' = [key EXCEPT ![p] = storages[sid[p]]]
          /\ pc' = [pc EXCEPT ![p] = "get_construct"]
          /\ UNCHANGED <<ret, err, failure, logged>>
       \/ /\ sid[p] \notin DOMAIN storages
          /\ LeaveLogged(p, "StorageNotFound")
          /\ UNCHANGED key
       \/ /\ LeaveLogged(p, "DBError")
          /\ UNCHANGED key
    /\ UNCHANGED <<shared, op, sid, drv, sched, history>>
    /\ UNCHANGED adapter

\* Lines 64-67: the driver class of the storage's key, and a driver of it.
GetStorageConstruct(p) ==
    /\ pc[p] = "get_construct"
    /\ IF key[p] \notin DOMAIN DRIVER_MAPPING
         THEN /\ LeaveLogged(p, "KeyError")
              /\ UNCHANGED <<drv, nextDriver, logins>>
         ELSE /\ nextDriver <= MaxDrivers
              /\ nextDriver' = nextDriver + 1
              /\ \E login \in {"ok"} \cup DeviceErrors :
                   IF login = "ok"
                     THEN /\ drv' = [drv EXCEPT ![p] = nextDriver]
                          /\ logins' = DriverInit(sid[p])
                          /\ pc' = [pc EXCEPT ![p] = "get_info"]
                          /\ UNCHANGED <<ret, err, failure, logged>>
                     ELSE /\ LeaveLogged(p, login)
                          /\ UNCHANGED <<drv, logins>>
    /\ UNCHANGED <<driver_factory, storages, registry_contexts, op, sid, key,
                   sched, removed, gotten>>
    /\ UNCHANGED adapter

\* Lines 70-77: storage info is fetched from the device and merged into the
\* storage; then line 76 reads register_info, a name get_storage never binds:
\* NameError, logged and raised again by the except clause.  Lines 77-82
\* (the factory update and the return) are never reached.
GetStorageInfo(p) ==
    /\ pc[p] = "get_info"
    /\ \E info \in {"ok"} \cup DeviceErrors :
         IF info = "ok"
           THEN /\ LeaveLogged(p, "NameError")
                /\ gotten' = gotten \cup {sid[p]}
           ELSE /\ LeaveLogged(p, info)
                /\ UNCHANGED gotten
    /\ UNCHANGED <<shared, op, sid, key, drv, sched, logins, removed>>
    /\ UNCHANGED adapter

\* ------------------------------------- TaskManager.remove_storage_in_cache
\* DriverManager.remove_driver: the entry of the id leaves the factory; a
\* factory without the id is left as it is.
remove_driver(factory, s) == [x \in DOMAIN factory \ {s} |-> factory[x]]

\* Lines 82-85: remove_driver is called on a DriverManager constructed here,
\* whose driver_factory is a new dict; the registry's is not touched.
RemoveStorageInCache(p) ==
    /\ pc[p] = "idle"
    /\ \E s \in StorageIds :
        LET drivers == DriverManagerInit
            left == remove_driver(drivers, s)
        IN  /\ left = DriverManagerInit
            /\ op' = [op EXCEPT ![p] = "remove_storage_in_cache"]
            /\ sid' = [sid EXCEPT ![p] = s]
            /\ Leave(p, "None", "")
            /\ removed' = removed \cup {s}
            /\ gotten' = gotten \ {s}
            /\ logins' = [logins EXCEPT ![s] = 0]
    /\ UNCHANGED <<shared, key, drv, sched>>
    /\ UNCHANGED adapter

\* db.storage_delete(context, storage_id), called by the API when a storage
\* is deleted: the storage row goes away.  Only the id of a completed
\* registration is known to a client.
StorageDelete ==
    /\ \E s \in DOMAIN storages :
        /\ \E r \in registry_contexts : r.storage_id = s
        /\ \A p \in Workers :
              ~(pc[p] \in {"reg_context", "reg_cache"} /\ sid[p] = s)
        /\ storages' = [t \in DOMAIN storages \ {s} |-> storages[t]]
    /\ UNCHANGED <<driver_factory, registry_contexts, nextDriver, pc, op,
                   locals, sched, history>>
    /\ UNCHANGED adapter

\* ------------------------------------------------- the NetApp adapter

\* Text is a sequence of characters.  "a" is a letter, ":" the separator of
\* a trap's fields.
MaxTrapLen == 3
Chars == {"a", ":"}
TrapData == UNION {[1..n -> Chars] : n \in 0..MaxTrapLen}

\* The clock reads 0..MaxTicks ticks; TicksPerSecond ticks make a second, so
\* that time.time() has a fraction and int(time.time()) drops it.
MaxTicks == 3
TicksPerSecond == 2

OID_SERIAL_NUM == "1.3.6.1.4.1.789.1.1.9.0"
OID_TRAP_DATA == "1.3.6.1.4.1.789.1.1.12.0"

\* A trap as the alert manager hands it over: a dict of oids, with or
\* without the trap-data oid.
Alerts ==
    {(OID_SERIAL_NUM :> <<"a">>)} \cup
    {(OID_SERIAL_NUM :> <<"a">>) @@ (OID_TRAP_DATA :> d) : d \in TrapData}

\* constant.SEVERITY_MAP: the alert names the driver knows.
SEVERITY_MAP == (<<"a">> :> "CRITICAL")

\* str.split(sep): the pieces between the separators; one piece, the text
\* itself, when there is no separator.
RECURSIVE Split(_, _)
Split(s, sep) ==
    IF \A i \in 1..Len(s) : s[i] # sep
    THEN <<s>>
    ELSE LET i == CHOOSE k \in 1..Len(s) :
                    s[k] = sep /\ \A j \in 1..(k - 1) : s[j] # sep
         IN  <<SubSeq(s, 1, i - 1)>> \o Split(SubSeq(s, i + 1, Len(s)), sep)

\* str(n) of a natural number: its decimal digits.
RECURSIVE Str(_)
Str(n) ==
    IF n < 10 THEN <<ToString(n)>> ELSE Str(n \div 10) \o <<ToString(n % 10)>>

\* int(time.time()) and str(time.time()) at clock reading t.
IntTime(t) == t \div TicksPerSecond
StrTime(t) == Str(t \div TicksPerSecond) \o <<".">> \o Str(t % TicksPerSecond)

\* hashlib.md5(text).hexdigest(): equal texts give equal digests and, no
\* collision being assumed, different texts different digests.
md5(text) == <<"md5", text>>

AlertFields ==
    {"alert_id", "alert_name", "severity", "category", "type", "occur_time",
     "description", "match_key", "resource_type", "location"}

\* A variant of parse_alert that refuses trap data without a separator.
parse_alert_strict(alert, t1, t2) ==
    IF OID_TRAP_DATA \notin DOMAIN alert
    THEN Raised("InvalidResults")
    ELSE
        LET alert_info == alert[OID_TRAP_DATA]
            alert_array == Split(alert_info, ":")
        IN  IF Len(alert_array) <= 1
            THEN Raised("InvalidResults")
            ELSE IF alert_array[1] \in DOMAIN SEVERITY_MAP
            THEN Returned(
                   [alert_id |-> alert_array[1],
                    alert_name |-> alert_array[1],
                    severity |-> "Critical",
                    category |-> "Event",
                    type |-> "EquipmentAlarm",
                    occur_time |-> IntTime(t1),
                    description |-> alert_array[2],
                    match_key |-> md5(alert_info \o StrTime(t2)),
                    resource_type |-> "Storage",
                    location |-> ""])
            ELSE Returned(<< >>)

\* A variant of parse_alert whose description carries the time of parsing.
parse_alert_stamped(alert, t1, t2) ==
    LET r == parse_alert_strict(alert, t1, t2)
    IN  IF OID_TRAP_DATA \notin DOMAIN alert THEN r
        ELSE IF r.kind = "raise" THEN Returned(<< >>)
        ELSE IF DOMAIN r.value = {} THEN r
        ELSE Returned([r.value EXCEPT !.description = @ \o StrTime(t1)])

\* netapp_handler.py 39-68, parse_alert.  t1 and t2 are the two readings of
\* the clock, the one for occur_time and the one for match_key.  A dict
\* without the trap data gives None, None.split raises, and every exception
\* leaves as InvalidResults.
parse_alert(alert, t1, t2) ==
    IF OID_TRAP_DATA \notin DOMAIN alert
    THEN Raised("InvalidResults")
    ELSE
        LET alert_info == alert[OID_TRAP_DATA]
            alert_array == Split(alert_info, ":")
        IN  IF Len(alert_array) > 1 /\ alert_array[1] \in DOMAIN SEVERITY_MAP
            THEN Returned(
                   [alert_id |-> alert_array[1],
                    alert_name |-> alert_array[1],
                    severity |-> "Critical",
                    category |-> "Event",
                    type |-> "EquipmentAlarm",
                    occur_time |-> IntTime(t1),
                    description |-> alert_array[2],
                    match_key |-> md5(alert_info \o StrTime(t2)),
                    resource_type |-> "Storage",
                    location |-> ""])
            ELSE Returned(<< >>)

\* time passes.
TickClock ==
    /\ now < MaxTicks
    /\ now' = now + 1
    /\ UNCHANGED <<call, result, prev, issued>>
    /\ UNCHANGED manager

\* cluster_mode.py 69-71: the driver's parse_alert is called with a trap.
\* The clock may move between its two readings.
ParseAlert ==
    /\ \E alert \in Alerts, t2 \in {now, now + 1} :
        /\ t2 <= MaxTicks
        /\ call' = [op |-> "parse_alert", alert |-> alert, t1 |-> now,
                    t2 |-> t2]
        /\ result' = parse_alert(alert, now, t2)
        /\ now' = t2
    /\ prev' = [call |-> call, result |-> result]
    /\ UNCHANGED issued
    /\ UNCHANGED manager

ParseAlertNext == ParseAlert \/ TickClock

\* ---- list_alerts

\* The device prints at most MaxBlocks records over its two logs, with
\* times 0..MaxTime.
MaxBlocks == 2
MaxTime == 2
AlertIds == {<<"1">>, <<"2">>}

\* The time as the device prints it, and time.mktime(time.strptime(text)):
\* the digits are read back into the number of seconds.
TimeTexts == {Str(n) : n \in 0..MaxTime}
Digit(c) == CHOOSE d \in 0..9 : ToString(d) = c
RECURSIVE Mktime(_)
Mktime(text) ==
    IF Len(text) = 1 THEN Digit(text[1])
    ELSE 10 * Mktime(SubSeq(text, 1, Len(text) - 1)) + Digit(text[Len(text)])

\* constant.ALERT_SEVERITY: the severities of the alert log the driver knows.
ALERT_SEVERITY == ("Major" :> "Major")

\* What comes before the first separator of the device's output.
Header == ("header" :> <<>>)

\* The records of the event log and of the alert log, as split_value_map
\* leaves them in the map.
EventBlocks ==
    {("Time" :> tm) @@ ("Sequence#" :> id) @@ ("MessageName" :> <<"a">>)
       @@ ("Event" :> <<"a">>) @@ ("Source" :> <<"a">>) :
         tm \in TimeTexts, id \in AlertIds}
AlertBlocks ==
    {("IndicationTime" :> tm) @@ ("AlertID" :> id)
       @@ ("ProbableCause" :> <<"a">>) @@ ("PerceivedSeverity" :> sev)
       @@ ("Description" :> <<"a">>) @@ ("AlertingResourceName" :> <<"a">>) :
         tm \in TimeTexts, id \in AlertIds, sev \in {"Major", "Unheard"}}

\* query_para: None, or a window.
QueryParas ==
    {[given |-> FALSE, begin_time |-> 0, end_time |-> 0]} \cup
    {[given |-> TRUE, begin_time |-> b, end_time |-> e] :
        b \in 0..MaxTime, e \in 0..MaxTime}

\* A window that leaves out its end.
InWindowOpenEnd(query_para, occur_time) ==
    \/ ~query_para.given
    \/ (query_para.begin_time <= occur_time
        /\ occur_time < query_para.end_time)

\* Lines 276-279 and 308-311: query_para is None or
\* begin_time <= occur_time <= end_time.
InWindow(query_para, occur_time) ==
    \/ ~query_para.given
    \/ (query_para.begin_time <= occur_time
        /\ occur_time <= query_para.end_time)

\* Lines 264-295, get_events, over event_array[1:].
RECURSIVE get_events(_, _)
get_events(event_array, query_para) ==
    IF event_array = << >> THEN << >>
    ELSE
        LET event_map == Head(event_array)
            occur_time == Mktime(event_map["Time"])
            rest == get_events(Tail(event_array), query_para)
        IN  IF InWindow(query_para, occur_time)
            THEN <<[alert_id |-> event_map["Sequence#"],
                    alert_name |-> event_map["MessageName"],
                    severity |-> "Critical",
                    category |-> "Event",
                    type |-> "EquipmentAlarm",
                    occur_time |-> occur_time,
                    description |-> event_map["Event"],
                    match_key |-> md5(event_map["Sequence#"]
                                        \o Str(occur_time)),
                    resource_type |-> "Storage",
                    location |-> event_map["Source"]]>> \o rest
            ELSE rest

\* Lines 297-328, get_alerts, over alert_array[1:]: a severity that is not
\* in ALERT_SEVERITY raises KeyError, and the call ends there.
RECURSIVE get_alerts(_, _)
get_alerts(alert_array, query_para) ==
    IF alert_array = << >> THEN Returned(<< >>)
    ELSE
        LET alert_map == Head(alert_array)
            occur_time == Mktime(alert_map["IndicationTime"])
            rest == get_alerts(Tail(alert_array), query_para)
        IN  IF ~InWindow(query_para, occur_time) THEN rest
            ELSE IF alert_map["PerceivedSeverity"] \notin DOMAIN ALERT_SEVERITY
            THEN Raised("KeyError")
            ELSE IF rest.kind = "raise" THEN rest
            ELSE Returned(
                   <<[alert_id |-> alert_map["AlertID"],
                      alert_name |-> alert_map["ProbableCause"],
                      severity |->
                          ALERT_SEVERITY[alert_map["PerceivedSeverity"]],
                      category |-> "Fault",
                      type |-> "EquipmentAlarm",
                      occur_time |-> occur_time,
                      description |-> alert_map["Description"],
                      match_key |-> md5(alert_map["AlertID"]
                                          \o Str(occur_time)),
                      resource_type |-> "Storage",
                      location |-> alert_map["AlertingResourceName"]]>>
                   \o rest.value)

\* Lines 330-346, list_alerts: the events, then the alerts; an exception
\* that is not a DelfinException leaves as InvalidResults.
list_alerts(event_array, alert_array, query_para) ==
    LET events == get_events(Tail(event_array), query_para)
        alerts == get_alerts(Tail(alert_array), query_para)
    IN  IF alerts.kind = "raise" THEN Raised("InvalidResults")
        ELSE Returned(events \o alerts.value)

\* Before list_alerts runs: what the device will answer with its two logs,
\* and the window asked for.
ListAlertsInit ==
    /\ ManagerInit
    /\ \E k \in 0..MaxBlocks : \E j \in 0..(MaxBlocks - k) :
        \E events \in [1..k -> EventBlocks], alerts \in [1..j -> AlertBlocks],
           query_para \in QueryParas :
            call = [op |-> "list_alerts", events |-> events,
                    alerts |-> alerts, query_para |-> query_para]
    /\ result = NoResult
    /\ prev = [call |-> NoCall, result |-> NoResult]
    /\ now = 0
    /\ issued = << >>

\* Logs whose ids and times have one or two digits.
DigitTexts == {<<"1">>, <<"1", "1">>}
EventBlocksOfDigits ==
    {("Time" :> tm) @@ ("Sequence#" :> id) @@ ("MessageName" :> <<"a">>)
       @@ ("Event" :> <<"a">>) @@ ("Source" :> <<"a">>) :
         tm \in DigitTexts, id \in DigitTexts}
AlertBlocksOfDigits ==
    {("IndicationTime" :> tm) @@ ("AlertID" :> id)
       @@ ("ProbableCause" :> <<"a">>) @@ ("PerceivedSeverity" :> "Major")
       @@ ("Description" :> <<"a">>) @@ ("AlertingResourceName" :> <<"a">>) :
         tm \in DigitTexts, id \in DigitTexts}

\* Before list_alerts runs with query_para None on such logs.
ListAlertsOfDigitsInit ==
    /\ ManagerInit
    /\ \E k \in 0..MaxBlocks : \E j \in 0..(MaxBlocks - k) :
        \E events \in [1..k -> EventBlocksOfDigits],
           alerts \in [1..j -> AlertBlocksOfDigits] :
            call = [op |-> "list_alerts", events |-> events,
                    alerts |-> alerts,
                    query_para |-> [given |-> FALSE, begin_time |-> 0,
                                    end_time |-> 0]]
    /\ result = NoResult
    /\ prev = [call |-> NoCall, result |-> NoResult]
    /\ now = 0
    /\ issued = << >>

\* The driver's list_alerts runs on the call and returns.
ListAlerts ==
    /\ call.op = "list_alerts"
    /\ result.kind = "none"
    /\ result' = list_alerts(<<Header>> \o call.events,
                             <<Header>> \o call.alerts, call.query_para)
    /\ UNCHANGED <<call, prev, now, issued>>
    /\ UNCHANGED manager

\* ---- list_storage_pools

\* constant.AGGREGATE_STATUS: the aggregate states the driver knows.
AGGREGATE_STATUS == ("online" :> "normal") @@ ("offline" :> "offline")

\* Tools.get_capacity_size(text): the digits times the bytes of the unit.
UnitBytes == (<<"K", "B">> :> 1024)
get_capacity_size(text) ==
    Mktime(SubSeq(text, 1, Len(text) - 2))
        * UnitBytes[SubSeq(text, Len(text) - 1, Len(text))]

PoolIds == {<<"1">>, <<"2">>}

\* The records of `storage aggregate show` and of `storage pool show`, as
\* the lines of one block give them: the state line may be missing, and
\* the sizes are whatever the device prints.
AggregateBlocks ==
    LET rest(id) ==
            ("e" :> <<"a">>) @@ ("UUIDString" :> id)
              @@ ("Size" :> <<"2", "K", "B">>)
              @@ ("AvailableSize" :> <<"1", "K", "B">>)
        sized == {("UsedSize" :> u) @@ rest(id) :
                     u \in {<<"1", "K", "B">>, <<"2", "K", "B">>},
                     id \in PoolIds}
    IN  sized \cup
        {("State" :> s) @@ b : s \in {"online", "unheard"}, b \in sized}
PoolBlocks ==
    LET rest(id) ==
            ("ame" :> <<"a">>) @@ ("UUIDofStoragePool" :> id)
              @@ ("StoragePoolTotalSize" :> <<"2", "K", "B">>)
        sized == {("StoragePoolUsableSize" :> u) @@ rest(id) :
                     u \in {<<"1", "K", "B">>, <<"3", "K", "B">>},
                     id \in PoolIds}
    IN  sized \cup
        {("IsPoolHealthy?" :> s) @@ b : s \in {"true", "false"}, b \in sized}

\* Tools.split_value_map(text, map, split=':'): the pairs of the block are
\* written into the map, which keeps what it held under other keys.
split_value_map(block, map) == block @@ map
EmptyMap == [k \in {} |-> << >>]

\* Lines 139-156, the loop of get_aggregate over agg_array[1:], with the
\* agg_map of line 138 carried from block to block.  A key that the map
\* does not hold raises KeyError.
RECURSIVE get_aggregate(_, _, _)
get_aggregate(agg_array, agg_map0, storage_id) ==
    IF agg_array = << >> THEN Returned(<< >>)
    ELSE
        LET agg_map == split_value_map(Head(agg_array), agg_map0)
            rest == get_aggregate(Tail(agg_array), agg_map, storage_id)
        IN  IF ~({"State", "e", "UUIDString", "Size", "UsedSize",
                  "AvailableSize"} \subseteq DOMAIN agg_map)
            THEN Raised("KeyError")
            ELSE IF rest.kind = "raise" THEN rest
            ELSE Returned(
                   <<[name |-> agg_map["e"],
                      storage_id |-> storage_id,
                      native_storage_pool_id |-> agg_map["UUIDString"],
                      description |-> "",
                      status |->
                          IF agg_map["State"] \in DOMAIN AGGREGATE_STATUS
                          THEN AGGREGATE_STATUS[agg_map["State"]]
                          ELSE "None",
                      storage_type |-> "unified",
                      total_capacity |-> get_capacity_size(agg_map["Size"]),
                      used_capacity |->
                          get_capacity_size(agg_map["UsedSize"]),
                      free_capacity |->
                          get_capacity_size(agg_map["AvailableSize"])]>>
                   \o rest.value)

\* Lines 165-189, the loop of get_pool over pool_array[1:].
RECURSIVE get_pool(_, _, _)
get_pool(pool_array, pool_map0, storage_id) ==
    IF pool_array = << >> THEN Returned(<< >>)
    ELSE
        LET pool_map == split_value_map(Head(pool_array), pool_map0)
            rest == get_pool(Tail(pool_array), pool_map, storage_id)
        IN  IF ~({"IsPoolHealthy?", "ame", "UUIDofStoragePool",
                  "StoragePoolTotalSize", "StoragePoolUsableSize"}
                    \subseteq DOMAIN pool_map)
            THEN Raised("KeyError")
            ELSE IF rest.kind = "raise" THEN rest
            ELSE Returned(
                   <<[name |-> pool_map["ame"],
                      storage_id |-> storage_id,
                      native_storage_pool_id |->
                          pool_map["UUIDofStoragePool"],
                      description |-> "",
                      status |->
                          IF pool_map["IsPoolHealthy?"] = "true"
                          THEN "normal" ELSE "abnormal",
                      storage_type |-> "unified",
                      total_capacity |->
                          get_capacity_size(pool_map["StoragePoolTotalSize"]),
                      used_capacity |->
                          get_capacity_size(pool_map["StoragePoolTotalSize"])
                          - get_capacity_size(
                              pool_map["StoragePoolUsableSize"]),
                      free_capacity |->
                          get_capacity_size(
                              pool_map["StoragePoolUsableSize"])]>>
                   \o rest.value)

\* A variant of list_storage_pools that puts the pools first.
list_storage_pools_pools_first(agg_array, pool_array, storage_id) ==
    LET pool_list == get_pool(Tail(pool_array), EmptyMap, storage_id)
        agg_list == get_aggregate(Tail(agg_array), EmptyMap, storage_id)
    IN  IF pool_list.kind = "raise" \/ agg_list.kind = "raise"
        THEN Raised("InvalidResults")
        ELSE Returned(pool_list.value \o agg_list.value)

\* Lines 192-206, list_storage_pools: agg_list + pool_list; an exception
\* that is not a DelfinException leaves as InvalidResults.
list_storage_pools(agg_array, pool_array, storage_id) ==
    LET pool_list == get_pool(Tail(pool_array), EmptyMap, storage_id)
        agg_list == get_aggregate(Tail(agg_array), EmptyMap, storage_id)
    IN  IF pool_list.kind = "raise" \/ agg_list.kind = "raise"
        THEN Raised("InvalidResults")
        ELSE Returned(agg_list.value \o pool_list.value)

\* Before list_storage_pools runs: the storage asked for and what the
\* device will answer to the two commands.
ListStoragePoolsInit ==
    /\ ManagerInit
    /\ \E k \in 0..MaxBlocks : \E j \in 0..(MaxBlocks - k) :
        \E aggs \in [1..k -> AggregateBlocks], pools \in [1..j -> PoolBlocks],
           storage_id \in StorageIds :
            call = [op |-> "list_storage_pools", aggs |-> aggs,
                    pools |-> pools, storage_id |-> storage_id]
    /\ result = NoResult
    /\ prev = [call |-> NoCall, result |-> NoResult]
    /\ now = 0
    /\ issued = << >>

\* The driver's list_storage_pools runs on the call and returns.
ListStoragePools ==
    /\ call.op = "list_storage_pools"
    /\ result.kind = "none"
    /\ result' = list_storage_pools(<<Header>> \o call.aggs,
                                    <<Header>> \o call.pools,
                                    call.storage_id)
    /\ UNCHANGED <<call, prev, now, issued>>
    /\ UNCHANGED manager

\* ---- get_disks and get_storage

\* constant.DISK_LOGICAL and constant.DISK_TYPE: the container types and
\* the disk types the driver knows.
DISK_LOGICAL == ("aggregate" :> "member") @@ ("spare" :> "spare")
DISK_TYPE == ("SSD" :> "ssd")

\* The blocks of `storage disk show`: the errors line may be missing, empty
\* or filled.
DiskBlocks ==
    LET rest(k, size) ==
            ("k" :> k) @@ ("ContainerType" :> "aggregate")
              @@ ("SerialNumber" :> <<"a">>) @@ ("Vendor" :> <<"a">>)
              @@ ("Model" :> <<"a">>) @@ ("PhysicalSize" :> size)
              @@ ("Aggregate" :> <<"a">>)
        sized == {rest(k, size) :
                     k \in PoolIds,
                     size \in {<<"1", "K", "B">>, <<"2", "K", "B">>}}
    IN  sized \cup
        {("Errors:" :> e) @@ b : e \in {<< >>, <<"a">>}, b \in sized}

\* The rows of `storage disk show -physical`, each split into its columns:
\* no row, a row for disk 1, a row for disk 1 that is too short.
PhysicalTables ==
    { << >>,
      << <<<<"1">>, "SSD", "x", "x", "NA01", "7200", "x">> >>,
      << <<<<"1">>, "SSD", "x">> >> }

\* Lines 376-385: the first row of more than six columns whose first column
\* is the disk's key, or no row.
PhysicalOf(physicals_list, k) ==
    LET hits == {i \in 1..Len(physicals_list) :
                    /\ Len(physicals_list[i]) > 6
                    /\ physicals_list[i][1] = k}
    IN  IF hits = {} THEN << >>
        ELSE physicals_list[CHOOSE i \in hits : \A j \in hits : i <= j]

\* Lines 364-412, the loop of get_disks over disks_array[1:].
RECURSIVE get_disks(_, _, _, _)
get_disks(disks_array, disks_map0, physicals_list, storage_id) ==
    IF disks_array = << >> THEN Returned(<< >>)
    ELSE
        LET disks_map == split_value_map(Head(disks_array), disks_map0)
            rest == get_disks(Tail(disks_array), disks_map, physicals_list,
                              storage_id)
        IN  IF ~({"k", "ContainerType", "Errors:", "SerialNumber", "Vendor",
                  "Model", "PhysicalSize", "Aggregate"}
                    \subseteq DOMAIN disks_map)
            THEN Raised("KeyError")
            ELSE IF rest.kind = "raise" THEN rest
            ELSE
                LET physical_info == PhysicalOf(physicals_list, disks_map["k"])
                    found == physical_info # << >>
                IN  Returned(
                      <<[name |-> disks_map["k"],
                         storage_id |-> storage_id,
                         native_disk_id |-> disks_map["k"],
                         serial_number |-> disks_map["SerialNumber"],
                         manufacturer |-> disks_map["Vendor"],
                         model |-> disks_map["Model"],
                         firmware |->
                             IF found THEN physical_info[5] ELSE "None",
                         speed |-> IF found THEN physical_info[6] ELSE "None",
                         capacity |->
                             get_capacity_size(disks_map["PhysicalSize"]),
                         status |->
                             IF disks_map["Errors:"] = << >>
                             THEN "normal" ELSE "abnormal",
                         physical_type |->
                             IF found /\ physical_info[2] \in DOMAIN DISK_TYPE
                             THEN DISK_TYPE[physical_info[2]] ELSE "None",
                         logical_type |->
                             IF disks_map["ContainerType"]
                                    \in DOMAIN DISK_LOGICAL
                             THEN DISK_LOGICAL[disks_map["ContainerType"]]
                             ELSE "None",
                         health_score |-> "",
                         native_disk_group_id |-> disks_map["Aggregate"],
                         location |-> ""]>>
                      \o rest.value)

\* cluster_mode.py 45-46, the driver's list_disks: `pass`.
list_disks(disks_array, physicals_list, storage_id) == Returned("None")

\* constant.STORAGE_STATUS, and what the device answers to the cluster,
\* version, status and controller commands.
STORAGE_STATUS == ("ok" :> "normal")
system_info == ("ClusterName" :> <<"a">>) @@ ("ClusterSerialNumber" :> <<"1">>)
version_info == << <<"9", ":", "a">> >>
status_info == <<"h", "h", "ok">>
controller_info ==
    <<Header, ("Model" :> <<"a">>) @@ ("Location" :> <<"a">>)>>

\* Lines 108-113: the sum of one field over a list, as the loops add it up.
RECURSIVE Accumulate(_, _, _)
Accumulate(acc, list, field) ==
    IF list = << >> THEN acc
    ELSE Accumulate(acc + Head(list)[field], Tail(list), field)

\* A variant of get_storage that takes the used capacity for the free one.
get_storage_free_is_used(disks_array, physicals_list, agg_array, pool_array) ==
    LET disk_list == get_disks(Tail(disks_array), EmptyMap, physicals_list,
                               "None")
        pool_list == list_storage_pools(agg_array, pool_array, "None")
    IN  IF disk_list.kind = "raise" \/ pool_list.kind = "raise"
        THEN Raised("InvalidResults")
        ELSE Returned(
               [name |-> system_info["ClusterName"],
                vendor |-> "NetApp",
                model |-> controller_info[2]["Model"],
                status |-> STORAGE_STATUS[status_info[3]],
                serial_number |-> system_info["ClusterSerialNumber"],
                firmware_version |-> Split(version_info[1], ":")[1],
                location |-> controller_info[2]["Location"],
                total_capacity |->
                    Accumulate(0, pool_list.value, "total_capacity"),
                raw_capacity |-> Accumulate(0, disk_list.value, "capacity"),
                used_capacity |->
                    Accumulate(0, pool_list.value, "used_capacity"),
                free_capacity |->
                    Accumulate(0, pool_list.value, "used_capacity")])

\* Lines 78-130, get_storage: the disks and the pools are listed, with
\* storage id None, and their capacities added up.  An exception of
\* get_disks is not a DelfinException and leaves as InvalidResults; that of
\* list_storage_pools is InvalidResults already.
get_storage(disks_array, physicals_list, agg_array, pool_array) ==
    LET disk_list == get_disks(Tail(disks_array), EmptyMap, physicals_list,
                               "None")
        pool_list == list_storage_pools(agg_array, pool_array, "None")
    IN  IF disk_list.kind = "raise" \/ pool_list.kind = "raise"
        THEN Raised("InvalidResults")
        ELSE Returned(
               [name |-> system_info["ClusterName"],
                vendor |-> "NetApp",
                model |-> controller_info[2]["Model"],
                status |-> STORAGE_STATUS[status_info[3]],
                serial_number |-> system_info["ClusterSerialNumber"],
                firmware_version |-> Split(version_info[1], ":")[1],
                location |-> controller_info[2]["Location"],
                total_capacity |->
                    Accumulate(0, pool_list.value, "total_capacity"),
                raw_capacity |-> Accumulate(0, disk_list.value, "capacity"),
                used_capacity |->
                    Accumulate(0, pool_list.value, "used_capacity"),
                free_capacity |->
                    Accumulate(0, pool_list.value, "free_capacity")])

\* Before get_storage runs: what the device will answer to the disk, pool
\* and aggregate commands.
GetStorageInit ==
    /\ ManagerInit
    /\ \E k \in 0..MaxBlocks : \E j \in 0..(MaxBlocks - k) :
       \E d \in 0..(MaxBlocks - k - j) :
        \E aggs \in [1..k -> AggregateBlocks], pools \in [1..j -> PoolBlocks],
           disks \in [1..d -> DiskBlocks] :
            call = [op |-> "get_storage", aggs |-> aggs, pools |-> pools,
                    disks |-> disks, physicals |-> << >>]
    /\ result = NoResult
    /\ prev = [call |-> NoCall, result |-> NoResult]
    /\ now = 0
    /\ issued = << >>

\* The handler's get_storage runs on the call and returns.
GetStorage ==
    /\ call.op = "get_storage"
    /\ result.kind = "none"
    /\ result' = get_storage(<<Header>> \o call.disks, call.physicals,
                             <<Header>> \o call.aggs, <<Header>> \o call.pools)
    /\ UNCHANGED <<call, prev, now, issued>>
    /\ UNCHANGED manager

\* Before the disks are listed: the operation called, the storage asked
\* for and what the device will answer to the two disk commands.
DisksInit ==
    /\ ManagerInit
    /\ \E d \in 0..MaxBlocks :
        \E disks \in [1..d -> DiskBlocks], physicals \in PhysicalTables,
           storage_id \in StorageIds, o \in {"get_disks", "list_disks"} :
            call = [op |-> o, disks |-> disks, physicals |-> physicals,
                    storage_id |-> storage_id]
    /\ result = NoResult
    /\ prev = [call |-> NoCall, result |-> NoResult]
    /\ now = 0
    /\ issued = << >>

\* The handler's get_disks runs on the call; it has no `try`, so what it
\* raises is what its caller sees.
GetDisks ==
    /\ call.op = "get_disks"
    /\ result.kind = "none"
    /\ result' = get_disks(Tail(<<Header>> \o call.disks), EmptyMap,
                           call.physicals, call.storage_id)
    /\ UNCHANGED <<call, prev, now, issued>>
    /\ UNCHANGED manager

\* The driver's list_disks runs on the call.
ListDisks ==
    /\ call.op = "list_disks"
    /\ result.kind = "none"
    /\ result' = list_disks(<<Header>> \o call.disks, call.physicals,
                            call.storage_id)
    /\ UNCHANGED <<call, prev, now, issued>>
    /\ UNCHANGED manager

DisksNext == GetDisks \/ ListDisks

\* ---- RequestContext

\* The request contexts: user, project, admin flag, roles and read_deleted.
RoleLists ==
    {<< >>, <<"admin">>, <<"member">>, <<"member", "admin">>,
     <<"admin", "member">>}
Contexts ==
    [user_id : {"fake_user", "111"}, project_id : {"fake_project", "222"},
     is_admin : BOOLEAN, roles : RoleLists,
     read_deleted : {"no", "yes", "only"}]

\* A variant of elevated that raises the rights of the context itself and
\* returns it.
elevated_in_place(self) ==
    LET context ==
            [self EXCEPT !.is_admin = TRUE,
                         !.roles = IF \E i \in 1..Len(@) : @[i] = "admin"
                                   THEN @ ELSE Append(@, "admin")]
    IN  [self |-> context, returned |-> context]

\* RequestContext.elevated(): a copy of the context is made admin, with
\* role 'admin' added when it has not got it.  Given are the context as it
\* is after the call and the context returned.
elevated(self) ==
    LET context ==
            [self EXCEPT !.is_admin = TRUE,
                         !.roles = IF \E i \in 1..Len(@) : @[i] = "admin"
                                   THEN @ ELSE Append(@, "admin")]
    IN  [self |-> self, returned |-> context]

ElevatedInit ==
    /\ ManagerInit
    /\ \E self \in Contexts : call = [op |-> "elevated", self |-> self]
    /\ result = NoResult
    /\ prev = [call |-> NoCall, result |-> NoResult]
    /\ now = 0
    /\ issued = << >>

\* test_context.py 24-28: elevated() is called on a context.
Elevated ==
    /\ call.op = "elevated"
    /\ result.kind = "none"
    /\ result' = Returned(elevated(call.self))
    /\ UNCHANGED <<call, prev, now, issued>>
    /\ UNCHANGED manager

\* ---- the storage views of the API

\* constants.SyncStatus and constants.DB.DEVICE_SYNC_STATUS.
SYNCED == 0
SYNCING == 1
DEVICE_SYNC_STATUS == "sync_status"

\* The greatest sync_status a stored storage holds.
MaxSyncStatus == 2

\* The storage records handed to the views.
StorageRecords ==
    [id : StorageIds, vendor : {"netapp", "fake"},
     sync_status : 0..MaxSyncStatus]

\* A variant of build_storage without the deepcopy: the view is the
\* storage itself.
build_storage_in_place(storage) ==
    LET view == [storage EXCEPT ![DEVICE_SYNC_STATUS] =
                     IF @ = SYNCED THEN "SYNCED" ELSE "SYNCING"]
    IN  [storage |-> view, view |-> view]

\* Lines 26-32, build_storage: a deep copy of the storage gets the name of
\* its sync_status.  Given are the storage as it is after the call and
\* the view returned.
build_storage(storage) ==
    LET view == [storage EXCEPT ![DEVICE_SYNC_STATUS] =
                     IF @ = SYNCED THEN "SYNCED" ELSE "SYNCING"]
    IN  [storage |-> storage, view |-> view]

\* Lines 19-23, build_storages: the views of the storages, in their order,
\* under the key 'storages'.
build_storages(storages_list) ==
    [storages_list |->
         [i \in 1..Len(storages_list) |->
              build_storage(storages_list[i]).storage],
     returned |->
         [storages |-> [i \in 1..Len(storages_list) |->
                           build_storage(storages_list[i]).view]]]

BuildStoragesInit ==
    /\ ManagerInit
    /\ \E n \in 0..MaxStorages :
        \E storages_list \in [1..n -> StorageRecords] :
            call = [op |-> "build_storages", storages_list |-> storages_list]
    /\ result = NoResult
    /\ prev = [call |-> NoCall, result |-> NoResult]
    /\ now = 0
    /\ issued = << >>

\* The API builds the views of a list of storages.
BuildStorages ==
    /\ call.op = "build_storages"
    /\ result.kind = "none"
    /\ result' = Returned(build_storages(call.storages_list))
    /\ UNCHANGED <<call, prev, now, issued>>
    /\ UNCHANGED manager

\* ---- the soft validation of additional properties

\* Property names, and the regular expressions of patternProperties: plain
\* texts, the empty one among them.
PropNames == {<<"a">>, <<"x", "b">>, <<"c">>}
PatternLists ==
    {<< >>, <<<< >>>>, <<<<"x">>>>, <<<<"c">>>>, <<<<"x">>, <<"c">>>>,
     <<<<"x">>, << >>>>}

\* "|".join(patterns).
RECURSIVE Join(_)
Join(list) ==
    IF list = << >> THEN << >>
    ELSE IF Len(list) = 1 THEN list[1]
    ELSE list[1] \o <<"|">> \o Join(Tail(list))

\* re.search(patterns, prop) for an alternation of plain texts: one of the
\* alternatives occurs somewhere in prop.
re_search(patterns, prop) ==
    LET alternatives == Split(patterns, "|")
    IN  \E n \in 1..Len(alternatives) :
            \E i \in 1..(Len(prop) + 1) :
                /\ i + Len(alternatives[n]) - 1 <= Len(prop)
                /\ SubSeq(prop, i, i + Len(alternatives[n]) - 1)
                     = alternatives[n]

\* Lines 35-85, _soft_validate_additional_properties.  Given are the value
\* as it is after the call and the errors yielded.
soft_validate_additional_properties(is_object, additional_properties_value, param_value, schema) ==
    IF ~is_object \/ additional_properties_value
    THEN [param_value |-> param_value, errors |-> << >>]
    ELSE
        LET properties == schema.properties
            patterns == Join(schema.patternProperties)
            extra_properties ==
                {prop \in DOMAIN param_value :
                    /\ prop \notin properties
                    /\ (patterns # << >>) => ~re_search(patterns, prop)}
        IN  IF extra_properties = {}
            THEN [param_value |-> param_value, errors |-> << >>]
            ELSE IF patterns # << >>
            THEN [param_value |-> param_value,
                  errors |-> <<[unexpected |-> extra_properties,
                                verb |-> IF Cardinality(extra_properties) = 1
                                         THEN "was" ELSE "were"]>>]
            ELSE [param_value |->
                      [prop \in DOMAIN param_value \ extra_properties |->
                           param_value[prop]],
                  errors |-> << >>]

\* Before the validator runs: a value, its schema, and the schema's
\* additionalProperties.
SoftValidateInit ==
    /\ ManagerInit
    /\ \E keys \in SUBSET PropNames, properties \in SUBSET {<<"a">>},
          patternProperties \in PatternLists,
          is_object \in BOOLEAN, additional_properties_value \in BOOLEAN :
            call = [op |-> "soft_validate",
                    is_object |-> is_object,
                    additional_properties_value |->
                        additional_properties_value,
                    param_value |-> [prop \in keys |-> "v"],
                    schema |-> [properties |-> properties,
                                patternProperties |-> patternProperties]]
    /\ result = NoResult
    /\ prev = [call |-> NoCall, result |-> NoResult]
    /\ now = 0
    /\ issued = << >>

\* jsonschema runs the validator on the value.
SoftValidate ==
    /\ call.op = "soft_validate"
    /\ result.kind = "none"
    /\ result' = Returned(soft_validate_additional_properties(
                     call.is_object, call.additional_properties_value,
                     call.param_value, call.schema))
    /\ UNCHANGED <<call, prev, now, issued>>
    /\ UNCHANGED manager

\* ---- the remote commands of an operation

\* The operations of the handler that talk to the device, with their
\* arguments.
AdapterCalls ==
    {[op |-> "login", arg |-> << >>], [op |-> "get_storage", arg |-> << >>]}
    \cup {[op |-> o, arg |-> s] :
            o \in {"list_storage_pools", "list_volumes"}, s \in StorageIds}
    \cup {[op |-> "list_alerts", arg |-> q] : q \in QueryParas}
    \cup {[op |-> "clear_alert", arg |-> id] : id \in AlertIds}

\* The commands an operation passes to ssh_pool.do_exec, in the order of
\* the code: of get_disks, get_pool, get_aggregate, get_filesystems,
\* get_events and get_alerts where the operation calls them.
ListStoragePoolsCommands ==
    <<<<"POOLS_SHOW_DETAIL_COMMAND", << >>>>,
      <<"AGGREGATE_SHOW_DETAIL_COMMAND", << >>>>>>
Commands(c) ==
    CASE c.op = "login" -> <<<<"version", << >>>>>>
      [] c.op = "get_storage" ->
            <<<<"CLUSTER_SHOW_COMMAND", << >>>>,
              <<"VERSION_SHOW_COMMAND", << >>>>,
              <<"STORAGE_STATUS_COMMAND", << >>>>,
              <<"CONTROLLER_SHOW_DETAIL_COMMAND", << >>>>,
              <<"DISK_SHOW_DETAIL_COMMAND", << >>>>,
              <<"DISK_SHOW_PHYSICAL_COMMAND", << >>>>>>
            \o ListStoragePoolsCommands
      [] c.op = "list_storage_pools" -> ListStoragePoolsCommands
      [] c.op = "list_volumes" ->
            <<<<"LUN_SHOW_DETAIL_COMMAND", << >>>>,
              <<"FS_SHOW_DETAIL_COMMAND", << >>>>,
              <<"THIN_FS_SHOW_COMMAND", << >>>>>>
            \o ListStoragePoolsCommands
      [] c.op = "list_alerts" ->
            <<<<"EVENT_SHOW_DETAIL_COMMAND", << >>>>,
              <<"ALTER_SHOW_DETAIL_COMMAND", << >>>>>>
      [] c.op = "clear_alert" -> <<<<"CLEAR_ALERT_COMMAND", c.arg>>>>

\* What do_exec can raise: an exception of the driver framework, or any
\* other exception.
ExecErrors == DeviceErrors \cup {"OSError"}

\* What leaves the operation when do_exec raised e: login raises e again;
\* the others raise a DelfinException again and turn anything else into
\* InvalidResults.
Reraised(c, e) ==
    IF c.op = "login" \/ e \in DeviceErrors THEN e ELSE "InvalidResults"

Running == call \in AdapterCalls /\ result.kind = "none"

\* An operation of the handler is called.
AdapterBegin ==
    /\ ~Running
    /\ \E c \in AdapterCalls : call' = c
    /\ result' = NoResult
    /\ issued' = << >>
    /\ UNCHANGED <<prev, now>>
    /\ UNCHANGED manager

\* A variant of DoExec that sends a failed command a second time.
DoExecRetry ==
    /\ Running
    /\ Len(issued) < Len(Commands(call))
    /\ LET command == Commands(call)[Len(issued) + 1]
       IN  \/ /\ issued' = Append(issued, command)
              /\ UNCHANGED result
           \/ \E e \in ExecErrors :
              /\ issued' = Append(Append(issued, command), command)
              /\ result' = Raised(Reraised(call, e))
    /\ UNCHANGED <<call, prev, now>>
    /\ UNCHANGED manager

\* The next self.ssh_pool.do_exec(command) of the operation: it answers, or
\* it raises and the operation ends there.
DoExec ==
    /\ Running
    /\ Len(issued) < Len(Commands(call))
    /\ LET command == Commands(call)[Len(issued) + 1]
       IN  /\ issued' = Append(issued, command)
           /\ \/ UNCHANGED result
              \/ \E e \in ExecErrors : result' = Raised(Reraised(call, e))
    /\ UNCHANGED <<call, prev, now>>
    /\ UNCHANGED manager

\* Every command has been answered: the operation returns.
AdapterEnd ==
    /\ Running
    /\ Len(issued) = Len(Commands(call))
    /\ result' = Returned("None")
    /\ UNCHANGED <<call, prev, now, issued>>
    /\ UNCHANGED manager

CommandsNext == AdapterBegin \/ DoExec \/ AdapterEnd

RegistryNext ==
    \/ \E p \in Workers : RegisterStorageBegin(p)
    \/ \E p \in Workers : RegisterStorageCreate(p)
    \/ \E p \in Workers : RegisterStorageContext(p)
    \/ \E p \in Workers : RegisterStorageCache(p)
    \/ \E p \in Workers : GetStorageLookup(p)
    \/ \E p \in Workers : GetStorageLoad(p)
    \/ \E p \in Workers : GetStorageConstruct(p)
    \/ \E p \in Workers : GetStorageInfo(p)
    \/ \E p \in Workers : RemoveStorageInCache(p)
    \/ \E p \in Workers : Return(p)
    \/ Restart

\* --------------------------------------- TaskManager.sync_storage_resource
\* Lines 70-74, to the call of sync(): the task class is imported and a task
\* object is made for the storage.  No lock is taken.
SyncStorageResourceBegin(p) ==
    /\ pc[p] = "idle"
    /\ \E s \in StorageIds, k \in TaskKinds :
        /\ op' = [op EXCEPT ![p] = "sync_storage_resource"]
        /\ sid' = [sid EXCEPT ![p] = s]
        /\ key' = [key EXCEPT ![p] = k]
    /\ pc' = [pc EXCEPT ![p] = "syncing"]
    /\ UNCHANGED <<shared, drv, err, failure, logged, ret, sched, history>>
    /\ UNCHANGED adapter

\* Line 74: device_obj.sync() returns or raises; nothing is caught.
SyncStorageResourceEnd(p) ==
    /\ pc[p] = "syncing"
    /\ \E e \in {""} \cup DeviceErrors : Leave(p, "None", e)
    /\ UNCHANGED <<shared, op, sid, key, drv, sched, history>>
    /\ UNCHANGED adapter

\* Lines 77-79, to the call of remove().
RemoveStorageResourceBegin(p) ==
    /\ pc[p] = "idle"
    /\ \E s \in StorageIds, k \in TaskKinds :
        /\ op' = [op EXCEPT ![p] = "remove_storage_resource"]
        /\ sid' = [sid EXCEPT ![p] = s]
        /\ key' = [key EXCEPT ![p] = k]
    /\ pc' = [pc EXCEPT ![p] = "removing"]
    /\ UNCHANGED <<shared, drv, err, failure, logged, ret, sched, history>>
    /\ UNCHANGED adapter

\* Line 79: device_obj.remove() returns or raises; nothing is caught.
RemoveStorageResourceEnd(p) ==
    /\ pc[p] = "removing"
    /\ \E e \in {""} \cup DbErrors : Leave(p, "None", e)
    /\ UNCHANGED <<shared, op, sid, key, drv, sched, history>>
    /\ UNCHANGED adapter

\* ------------------------------------------------ TaskManager._task_example
\* A decorator that releases the lock after a return only.
ReleaseOnReturnOnly(holder, raised) == IF raised THEN holder ELSE Unlocked

\* coordination.synchronized('lock-task-example'): the lock once the wrapped
\* function has ended, by a return or by an exception.
Release(holder, raised) == Unlocked

\* Line 45: the periodic task fires; the decorator asks for the lock.
TaskExampleTick(p) ==
    /\ pc[p] = "idle"
    /\ op' = [op EXCEPT ![p] = "_task_example"]
    /\ pc' = [pc EXCEPT ![p] = "acquiring"]
    /\ UNCHANGED <<shared, locals, sched, history>>
    /\ UNCHANGED adapter

\* The lock is free: the tick takes it and enters the function.
TaskExampleAcquire(p) ==
    /\ pc[p] = "acquiring"
    /\ lock = Unlocked
    /\ lock' = p
    /\ pc' = [pc EXCEPT ![p] = "in_task"]
    /\ UNCHANGED <<shared, op, locals, ranBody, history>>
    /\ UNCHANGED adapter

\* A lock timeout that reaches the periodic task runner as an error.
TaskExampleTimeoutFatal(p) ==
    /\ pc[p] = "acquiring"
    /\ lock # Unlocked
    /\ Leave(p, "skipped", "LockTimeout")
    /\ UNCHANGED <<shared, op, sid, key, drv, sched, history>>
    /\ UNCHANGED adapter

\* The lock stays held for the whole bounded wait: the tick is skipped.
TaskExampleTimeout(p) ==
    /\ pc[p] = "acquiring"
    /\ lock # Unlocked
    /\ Leave(p, "skipped", "")
    /\ UNCHANGED <<shared, op, sid, key, drv, sched, history>>
    /\ UNCHANGED adapter

\* Lines 51-52: the task body, a say_hello cast, which can fail.
TaskExampleBody(p) ==
    /\ pc[p] = "in_task"
    /\ ranBody' = [ranBody EXCEPT ![p] = TRUE]
    /\ \E e \in {"", "MessagingError"} :
        /\ err' = [err EXCEPT ![p] = e]
        /\ failure' = [failure EXCEPT ![p] = e]
    /\ pc' = [pc EXCEPT ![p] = "task_exit"]
    /\ UNCHANGED <<shared, op, sid, key, drv, ret, logged, lock, history>>
    /\ UNCHANGED adapter

\* The decorator's exit: the lock is released, then the result or the
\* exception of the function goes to the caller.
TaskExampleExit(p) ==
    /\ pc[p] = "task_exit"
    /\ lock' = Release(p, err[p] # "")
    /\ Leave(p, "None", err[p])
    /\ UNCHANGED <<shared, op, sid, key, drv, ranBody, history>>
    /\ UNCHANGED adapter

\* task_manager/manager.py 54-67, say_hello: the data is built and handed to
\* the exporter inside `try`; `except Exception: pass` drops whatever the
\* exporter raised, without a log line and without raising.
SayHello(p) ==
    /\ pc[p] = "idle"
    /\ op' = [op EXCEPT ![p] = "say_hello"]
    /\ pc' = [pc EXCEPT ![p] = "done"]
    /\ \E e \in {"", "ExportError"} : failure' = [failure EXCEPT ![p] = e]
    /\ UNCHANGED <<shared, sid, key, drv, err, ret, logged, sched, history>>
    /\ UNCHANGED adapter

SchedulerNext ==
    \/ \E p \in Workers : SyncStorageResourceBegin(p)
    \/ \E p \in Workers : SyncStorageResourceEnd(p)
    \/ \E p \in Workers : RemoveStorageResourceBegin(p)
    \/ \E p \in Workers : RemoveStorageResourceEnd(p)
    \/ \E p \in Workers : TaskExampleTick(p)
    \/ \E p \in Workers : TaskExampleAcquire(p)
    \/ \E p \in Workers : TaskExampleTimeout(p)
    \/ \E p \in Workers : TaskExampleBody(p)
    \/ \E p \in Workers : TaskExampleExit(p)
    \/ \E p \in Workers : SayHello(p)
    \/ \E p \in Workers : Return(p)

\* Registration, deletion of a storage and the cache-eviction task.
EvictionNext ==
    \/ \E p \in Workers : RegisterStorageBegin(p)
    \/ \E p \in Workers : RegisterStorageCreate(p)
    \/ \E p \in Workers : RegisterStorageContext(p)
    \/ \E p \in Workers : RegisterStorageCache(p)
    \/ \E p \in Workers : RemoveStorageInCache(p)
    \/ \E p \in Workers : Return(p)
    \/ StorageDelete

Next == RegistryNext \/ SchedulerNext \/ StorageDelete \/ ParseAlertNext
            \/ ListAlerts \/ ListStoragePools \/ GetStorage
            \/ DisksNext \/ Elevated \/ CommandsNext \/ BuildStorages
            \/ SoftValidate

Spec == Init /\ [][Next]_vars

\* The registry's operations alone.
SpecRegistry == Init /\ [][RegistryNext]_vars

\* Storages are registered and deleted while the eviction task runs.
SpecEviction == Init /\ [][EvictionNext]_vars

\* Traps are parsed, one after another, while time passes.
SpecParseAlert == Init /\ [][ParseAlertNext]_vars

\* list_alerts on every answer of the device and every window.
SpecListAlerts == ListAlertsInit /\ [][ListAlerts]_vars

\* list_storage_pools on every answer of the device.
SpecListStoragePools == ListStoragePoolsInit /\ [][ListStoragePools]_vars

\* get_storage on every answer of the device.
SpecGetStorage == GetStorageInit /\ [][GetStorage]_vars

\* The disks are listed, by the driver or by the handler.
SpecDisks == DisksInit /\ [][DisksNext]_vars

\* elevated() on every request context.
SpecContext == ElevatedInit /\ [][Elevated]_vars

\* list_alerts over logs with ids and times of one or two digits.
SpecMatchKey == ListAlertsOfDigitsInit /\ [][ListAlerts]_vars

\* The views of the API alone.
SpecViews == BuildStoragesInit /\ [][BuildStorages]_vars

\* The validator of additional properties alone.
SpecValidators == SoftValidateInit /\ [][SoftValidate]_vars

\* The handler's operations, command by command.
SpecCommands == Init /\ [][CommandsNext]_vars

\* The task manager's operations alone.
SpecScheduler == Init /\ [][SchedulerNext]_vars

\* The periodic task fires again and again, a lock request is answered, and
\* a handler that has started runs to its end.
FairScheduler ==
    /\ SpecScheduler
    /\ \A p \in Workers :
        /\ SF_vars(TaskExampleTick(p))
        /\ WF_vars(TaskExampleAcquire(p))
        /\ WF_vars(TaskExampleBody(p))
        /\ WF_vars(TaskExampleExit(p))
        /\ WF_vars(SyncStorageResourceEnd(p))
        /\ WF_vars(RemoveStorageResourceEnd(p))
        /\ WF_vars(Return(p))

\* ================================================================== claims

\* C1: for every (storage id, task kind) pair at most one sync() is in
\* progress at any time, whatever workers issue the sync.
C1_NoOverlappingSync ==
    \A p, q \in Workers :
        (p # q /\ pc[p] = "syncing" /\ pc[q] = "syncing")
            => (sid[p] # sid[q] \/ key[p] # key[q])

C4_OneDriverOnFirstAccess ==
    \A p, q \in Workers :
        (p # q /\ pc[p] = "get_info" /\ pc[q] = "get_info" /\ sid[p] = sid[q])
            => (drv[p] = drv[q] /\ logins[sid[p]] = 1)

\* A worker is between its read of the factory and the end of the operation
\* that acts on what it read, or is about to write to the factory.
InCacheSection(p) ==
    pc[p] \in {"get_load", "get_construct", "get_info", "reg_cache"}

\* The live driver instances of an id: the cached one and those that workers
\* have constructed for it.
LiveDrivers(s) ==
    ({Cached(driver_factory, s)} \cup
     {drv[p] : p \in {w \in Workers : InCacheSection(w) /\ sid[w] = s}})
        \ {NoneVal}

\* C5: no two operations are in their cache sections for the same id at the
\* same time, and an id never has more than one live driver instance.
C5_CacheExclusionPerId ==
    /\ \A p, q \in Workers :
        (p # q /\ InCacheSection(p) /\ InCacheSection(q)) => sid[p] # sid[q]
    /\ \A s \in StorageIds : Cardinality(LiveDrivers(s)) <= 1

\* C6: a get_storage that is not failed by the device or the database returns
\* the driver of the id, and that driver is the one the factory holds.
C6_GetDriverReturnsDriver ==
    \A p \in Workers :
        (/\ pc[p] = "done"
         /\ op[p] = "get_storage"
         /\ err[p] \notin DeviceErrors \cup DbErrors \cup {"StorageNotFound"})
            => /\ drv[p] # NoneVal
               /\ err[p] = ""
               /\ ret[p] = ToString(drv[p])
               /\ Cached(driver_factory, sid[p]) = drv[p]

\* C7: once a driver was removed and get_storage has returned for its id
\* since, exactly one login was made for the id since the removal.
C7_OneLoginAfterRemove ==
    \A s \in removed \cap gotten : logins[s] = 1

\* C8: remove_storage_in_cache leaves the registry's factory without the id,
\* leaves the entries of other ids as they were and does not raise.
C8_RemoveDriverEvicts ==
    [][\A p \in Workers :
        (pc[p] = "idle" /\ pc'[p] = "done"
         /\ op'[p] = "remove_storage_in_cache")
            => /\ sid'[p] \notin DOMAIN driver_factory'
               /\ \A s \in StorageIds \ {sid'[p]} :
                    Cached(driver_factory', s) = Cached(driver_factory, s)
               /\ err'[p] = ""]_vars

\* C9: when register_storage returns, the storage and the register info are
\* persisted under the new id, the factory maps that id to the driver made
\* for this registration, and the entries of other ids are as they were.
C9_RegisterCachesDriver ==
    [][\A p \in Workers :
        (op[p] = "register_storage" /\ pc[p] # "done" /\ pc'[p] = "done"
         /\ err'[p] = "")
            => /\ ret'[p] = "storage_info"
               /\ sid[p] \in DOMAIN storages'
               /\ storages'[sid[p]] = key[p]
               /\ \E r \in registry_contexts' : r.storage_id = sid[p]
               /\ drv[p] # NoneVal
               /\ Cached(driver_factory', sid[p]) = drv[p]
               /\ \A s \in StorageIds \ {sid[p]} :
                    Cached(driver_factory', s) = Cached(driver_factory, s)]_vars

\* A registration has returned while another id already had its driver.
C9_Witness ==
    \E p \in Workers :
        /\ pc[p] = "done"
        /\ op[p] = "register_storage"
        /\ ret[p] = "storage_info"
        /\ driver_factory[sid[p]] = drv[p]
        /\ Cardinality(DOMAIN driver_factory) >= 2

\* C10: a registration whose key has no driver class fails with
\* UnsupportedDeviceError, and no driver is constructed for it.
C10_UnsupportedDeviceError ==
    \A p \in Workers :
        (/\ pc[p] = "done"
         /\ op[p] = "register_storage"
         /\ key[p] \notin DOMAIN DRIVER_MAPPING)
            => (err[p] = "UnsupportedDeviceError" /\ drv[p] = NoneVal)

\* C11: the registration record held by the database never carries the
\* password as the client supplied it.
C11_PasswordNeverPlaintext ==
    \A r \in registry_contexts : r.password \notin Passwords

\* C12: a failure inside a handler of the task manager or of the registry is
\* logged or reaches the caller; none disappears.
C12_NoSilentFailure ==
    \A p \in Workers :
        (pc[p] = "done" /\ failure[p] # "") => (logged[p] \/ err[p] # "")

\* C13: when the cache-eviction task has run for a storage id that is no
\* longer in the database, the registry's cache holds no driver for that id.
C13_EvictionEmptiesCache ==
    [][\A p \in Workers :
          (/\ pc[p] = "idle"
           /\ pc'[p] = "done"
           /\ op'[p] = "remove_storage_in_cache"
           /\ sid'[p] \notin DOMAIN storages)
              => sid'[p] \notin DOMAIN driver_factory']_vars

\* C14: a failure that reaches the caller of a registry operation is a
\* TransportError, an AuthError, a ParseError (InvalidResults in the code) or
\* an UnsupportedDeviceError.
C14_OnlyClassifiedFailures ==
    \A p \in Workers :
        (pc[p] = "done" /\ err[p] # "")
            => err[p] \in {"TransportError", "AuthError", "InvalidResults",
                           "UnsupportedDeviceError"}


\* The trap data has a separator / its first field is a known alert name.
HasSeparator(d) == \E i \in 1..Len(d) : d[i] = ":"
KnownName(d) ==
    \E i \in 1..Len(d) :
        /\ d[i] = ":"
        /\ \A j \in 1..(i - 1) : d[j] # ":"
        /\ SubSeq(d, 1, i - 1) \in DOMAIN SEVERITY_MAP

C16_ParseAlertStateless ==
    (/\ call.op = "parse_alert"
     /\ prev.call.op = "parse_alert"
     /\ call.alert = prev.call.alert)
        => /\ result.kind = prev.result.kind
           /\ result.exc = prev.result.exc
           /\ DOMAIN result.value = DOMAIN prev.result.value
           /\ \A f \in DOMAIN result.value \ {"occur_time", "match_key"} :
                  result.value[f] = prev.result.value[f]

\* The same well-formed trap was parsed twice, in different seconds, and
\* the two models differ in occur_time.
C16_Witness ==
    /\ call.op = "parse_alert"
    /\ prev.call.op = "parse_alert"
    /\ call.alert = prev.call.alert
    /\ DOMAIN result.value = AlertFields
    /\ DOMAIN prev.result.value = AlertFields
    /\ result.value.occur_time # prev.result.value.occur_time

\* C17: two alerts of parse_alert with the same alert id have different
\* match keys when their occur_time differs and the same match key when
\* their occur_time, a whole second, is the same.
C17_MatchKeyFollowsSecond ==
    (/\ call.op = "parse_alert"
     /\ prev.call.op = "parse_alert"
     /\ DOMAIN result.value = AlertFields
     /\ DOMAIN prev.result.value = AlertFields
     /\ result.value.alert_id = prev.result.value.alert_id)
        => ((result.value.occur_time = prev.result.value.occur_time)
              <=> (result.value.match_key = prev.result.value.match_key))


\* The records of a log whose time lies in the window asked for.
Wanted(blocks, field, query_para) ==
    LET In(b) ==
            \/ ~query_para.given
            \/ \E n \in 0..MaxTime :
                  /\ b[field] = Str(n)
                  /\ query_para.begin_time <= n
                  /\ n <= query_para.end_time
    IN  SelectSeq(blocks, In)

\* C18: list_alerts returns the records of the event log whose time is in
\* the window, in the log's order, and after them those of the alert log,
\* in its order, one alert for each record and none left out as a
\* duplicate; both ends of the window count, and without a window every
\* record is returned.
C18_EventsThenAlertsInWindow ==
    (call.op = "list_alerts" /\ result.kind = "return") =>
        LET ev == Wanted(call.events, "Time", call.query_para)
            al == Wanted(call.alerts, "IndicationTime", call.query_para)
        IN  /\ Len(result.value) = Len(ev) + Len(al)
            /\ \A i \in 1..Len(ev) :
                  /\ result.value[i].category = "Event"
                  /\ result.value[i].alert_id = ev[i]["Sequence#"]
                  /\ Str(result.value[i].occur_time) = ev[i]["Time"]
            /\ \A i \in 1..Len(al) :
                  /\ result.value[Len(ev) + i].category = "Fault"
                  /\ result.value[Len(ev) + i].alert_id = al[i]["AlertID"]
                  /\ Str(result.value[Len(ev) + i].occur_time)
                        = al[i]["IndicationTime"]

\* An event at the first second of the window and an alert with the same id
\* at its last second were both returned, the event first.
C18_Witness ==
    /\ call.op = "list_alerts"
    /\ result.kind = "return"
    /\ call.query_para.given
    /\ call.query_para.begin_time < call.query_para.end_time
    /\ Len(call.events) = 1
    /\ Len(call.alerts) = 1
    /\ call.events[1]["Time"] = Str(call.query_para.begin_time)
    /\ call.alerts[1]["IndicationTime"] = Str(call.query_para.end_time)
    /\ call.events[1]["Sequence#"] = call.alerts[1]["AlertID"]
    /\ Len(result.value) = 2
    /\ result.value[1].category = "Event"


\* C19: list_storage_pools returns as many records as the device printed
\* aggregate blocks and pool blocks, the header blocks not counted; the
\* aggregates' records come first, in their order, then the pools', and a
\* pool with the id of an aggregate is kept beside it.
C19_AggregatesThenPools ==
    (call.op = "list_storage_pools" /\ result.kind = "return") =>
        /\ Len(result.value) = Len(call.aggs) + Len(call.pools)
        /\ \A i \in 1..Len(call.aggs) :
              result.value[i].native_storage_pool_id
                  = call.aggs[i]["UUIDString"]
        /\ \A i \in 1..Len(call.pools) :
              result.value[Len(call.aggs) + i].native_storage_pool_id
                  = call.pools[i]["UUIDofStoragePool"]

\* An aggregate and a pool with the same name and id were listed, and two
\* records came back.
C19_Witness ==
    /\ call.op = "list_storage_pools"
    /\ result.kind = "return"
    /\ Len(call.aggs) = 1
    /\ Len(call.pools) = 1
    /\ call.aggs[1]["UUIDString"] = call.pools[1]["UUIDofStoragePool"]
    /\ call.aggs[1]["e"] = call.pools[1]["ame"]
    /\ Len(result.value) = 2

\* C20: every record of list_storage_pools has the status the table gives
\* for the state the device printed, and status abnormal when the table
\* does not know that state or the block has none.
C20_StatusFromTableElseAbnormal ==
    (call.op = "list_storage_pools" /\ result.kind = "return") =>
        /\ \A i \in 1..Len(call.aggs) :
              result.value[i].status =
                  IF /\ "State" \in DOMAIN call.aggs[i]
                     /\ call.aggs[i]["State"] \in DOMAIN AGGREGATE_STATUS
                  THEN AGGREGATE_STATUS[call.aggs[i]["State"]]
                  ELSE "abnormal"
        /\ \A i \in 1..Len(call.pools) :
              result.value[Len(call.aggs) + i].status =
                  IF /\ "IsPoolHealthy?" \in DOMAIN call.pools[i]
                     /\ call.pools[i]["IsPoolHealthy?"] = "true"
                  THEN "normal"
                  ELSE "abnormal"


\* The bytes of a size the device printed in KB.
BytesOf(text) == 1024 * Mktime(SubSeq(text, 1, Len(text) - 2))
RECURSIVE SumOver(_, _)
SumOver(blocks, field) ==
    IF blocks = << >> THEN 0
    ELSE BytesOf(Head(blocks)[field]) + SumOver(Tail(blocks), field)

\* C21: the storage record of get_storage has for total, used and free
\* capacity the sums of those fields over the aggregates and pools that
\* list_storage_pools returns, and for raw capacity the sum of the
\* capacities of the disks.
C21_CapacitiesAreSums ==
    (call.op = "get_storage" /\ result.kind = "return") =>
        LET listed == list_storage_pools(<<Header>> \o call.aggs,
                                         <<Header>> \o call.pools, "None")
            field(f) == [i \in 1..Len(listed.value) |-> listed.value[i][f]]
            Total(s) == IF s = << >> THEN 0
                        ELSE LET S[i \in 1..Len(s)] ==
                                     IF i = 1 THEN s[1] ELSE S[i - 1] + s[i]
                             IN  S[Len(s)]
        IN  /\ listed.kind = "return"
            /\ result.value.total_capacity = Total(field("total_capacity"))
            /\ result.value.used_capacity = Total(field("used_capacity"))
            /\ result.value.free_capacity = Total(field("free_capacity"))
            /\ result.value.raw_capacity = SumOver(call.disks, "PhysicalSize")

\* A storage with a disk and with an aggregate or a pool was described, and
\* its used and free capacities differ.
C21_Witness ==
    /\ call.op = "get_storage"
    /\ result.kind = "return"
    /\ Len(call.pools) + Len(call.aggs) >= 1
    /\ Len(call.disks) >= 1
    /\ result.value.raw_capacity > 0
    /\ result.value.total_capacity > 0
    /\ result.value.used_capacity # result.value.free_capacity


\* C22: listing the disks gives one disk for each disk block; a disk with
\* no row in the physical table has no firmware, speed and physical type,
\* and the call succeeds; a disk is normal when its block has no errors
\* field or an empty one, and abnormal when it has one.
C22_OneDiskPerBlock ==
    (call.op \in {"get_disks", "list_disks"} /\ result.kind # "none") =>
        /\ result.kind = "return"
        /\ IF call.op = "list_disks" THEN result.value # "None"
           ELSE
            /\ Len(result.value) = Len(call.disks)
            /\ \A i \in 1..Len(call.disks) :
                LET b == call.disks[i]
                    r == result.value[i]
                IN  /\ r.native_disk_id = b["k"]
                    /\ r.status =
                         IF "Errors:" \in DOMAIN b /\ b["Errors:"] # << >>
                         THEN "abnormal" ELSE "normal"
                    /\ (\A j \in 1..Len(call.physicals) :
                            call.physicals[j][1] # b["k"])
                          => /\ r.firmware = "None"
                             /\ r.speed = "None"
                             /\ r.physical_type = "None"


\* C23: in every record of list_storage_pools the three capacities are not
\* negative and used plus free is at most total, whatever sizes the device
\* printed.
C23_CapacitiesInRange ==
    (call.op = "list_storage_pools" /\ result.kind = "return") =>
        \A i \in 1..Len(result.value) :
            /\ result.value[i].total_capacity >= 0
            /\ result.value[i].used_capacity >= 0
            /\ result.value[i].free_capacity >= 0
            /\ result.value[i].used_capacity + result.value[i].free_capacity
                  <= result.value[i].total_capacity


\* C24: elevated() returns a context that is admin and has role 'admin',
\* and the context it was called on is as it was: one that was not admin
\* is still not admin, and one without role 'admin' is still without it.
C24_ElevatedLeavesOriginal ==
    (call.op = "elevated" /\ result.kind = "return") =>
        /\ result.value.returned.is_admin
        /\ \E i \in 1..Len(result.value.returned.roles) :
              result.value.returned.roles[i] = "admin"
        /\ result.value.self.is_admin = call.self.is_admin
        /\ result.value.self.roles = call.self.roles
        /\ result.value.self = call.self

\* The context of test_request_context_elevated, not admin and without
\* roles, was elevated: the copy is admin, the original is not.
C24_Witness ==
    /\ call.op = "elevated"
    /\ result.kind = "return"
    /\ call.self.user_id = "fake_user"
    /\ ~call.self.is_admin
    /\ call.self.roles = << >>
    /\ result.value.returned.is_admin
    /\ ~result.value.self.is_admin
    /\ result.value.self.roles = << >>


\* C25: the header block gives no record, and each record returned by
\* list_storage_pools is the one its own block gives when it is the only
\* block of the output: nothing in it comes from an earlier block.
C25_RecordFromOwnBlock ==
    (call.op = "list_storage_pools" /\ result.kind = "return") =>
        /\ Len(result.value) = Len(call.aggs) + Len(call.pools)
        /\ \A i \in 1..Len(call.aggs) :
            LET alone == list_storage_pools(<<Header, call.aggs[i]>>,
                                            <<Header>>, call.storage_id)
            IN  /\ alone.kind = "return"
                /\ result.value[i] = alone.value[1]
        /\ \A i \in 1..Len(call.pools) :
            LET alone == list_storage_pools(<<Header>>,
                                            <<Header, call.pools[i]>>,
                                            call.storage_id)
            IN  /\ alone.kind = "return"
                /\ result.value[Len(call.aggs) + i] = alone.value[1]


\* C26: within one call of an operation of the handler no command is sent
\* to the device twice, and once a command has failed and the operation
\* has raised, the call sends nothing more.
C26_NoRetry ==
    [][/\ \A i, j \in 1..Len(issued') :
              i # j => issued'[i] # issued'[j]
       /\ result.kind = "raise" => (issued' = issued \/ issued' = << >>)]_vars

\* get_storage failed at a command in its middle: the commands before it
\* and that one were sent, the later ones were not.
C26_Witness ==
    /\ call.op = "get_storage"
    /\ result.kind = "raise"
    /\ Len(issued) >= 2
    /\ Len(issued) < Len(Commands(call))

\* C27: a register_storage that raised leaves the persisted storages as
\* they were before the call: the storage row the call itself created is
\* not among them.
C27_FailedRegisterLeavesNoStorage ==
    \A p \in Workers :
        (pc[p] = "done" /\ op[p] = "register_storage" /\ err[p] # "")
            => (sid[p] = NoneVal \/ sid[p] \notin DOMAIN storages)

\* C28: two polled alerts of the same log that differ in alert id or in
\* occur_time have different match keys (md5 is modelled without
\* collisions, so equal keys mean equal hash inputs).
C28_DistinctPairsDistinctKeys ==
    (call.op = "list_alerts" /\ result.kind = "return")
        => \A i, j \in 1..Len(result.value) :
              LET a == result.value[i]
                  b == result.value[j]
              IN  (/\ a.category = b.category
                   /\ (a.alert_id # b.alert_id
                       \/ a.occur_time # b.occur_time))
                      => a.match_key # b.match_key

\* Python's == of two values that may be a number and a string: equal
\* when they print the same.
SameValue(a, b) == ToString(a) = ToString(b)

\* C29: the view of a storage has the storage's fields with their values,
\* except sync_status, which is 'SYNCED' exactly when the stored value is
\* SyncStatus.SYNCED and 'SYNCING' otherwise; the storages given are not
\* modified; build_storages gives the views in the order of the storages.
C29_ViewNamesSyncStatus ==
    (call.op = "build_storages" /\ result.kind = "return") =>
        LET given == call.storages_list
            views == result.value.returned.storages
            after == result.value.storages_list
        IN  /\ Len(after) = Len(given)
            /\ \A i \in 1..Len(given) :
                  /\ DOMAIN after[i] = DOMAIN given[i]
                  /\ \A k \in DOMAIN given[i] :
                        SameValue(after[i][k], given[i][k])
            /\ Len(views) = Len(given)
            /\ \A i \in 1..Len(given) :
                  /\ DOMAIN views[i] = DOMAIN given[i]
                  /\ \A k \in DOMAIN given[i] \ {DEVICE_SYNC_STATUS} :
                        views[i][k] = given[i][k]
                  /\ (views[i][DEVICE_SYNC_STATUS] = "SYNCED")
                        <=> (given[i][DEVICE_SYNC_STATUS] = SYNCED)
                  /\ (views[i][DEVICE_SYNC_STATUS] = "SYNCING")
                        <=> (given[i][DEVICE_SYNC_STATUS] # SYNCED)

\* Two storages, the first synced and the second with two syncs running,
\* were viewed: 'SYNCED' then 'SYNCING', and the records still hold numbers.
C29_Witness ==
    /\ call.op = "build_storages"
    /\ result.kind = "return"
    /\ Len(call.storages_list) = 2
    /\ call.storages_list[1].sync_status = SYNCED
    /\ call.storages_list[2].sync_status = 2
    /\ result.value.returned.storages[1].sync_status = "SYNCED"
    /\ result.value.returned.storages[2].sync_status = "SYNCING"
    /\ result.value.storages_list[1].sync_status = SYNCED

\* A property name matches one of the patterns of the schema.
MatchesPattern(patternProperties, prop) ==
    \E n \in 1..Len(patternProperties) :
        re_search(patternProperties[n], prop)

\* C30: for an object value under additionalProperties false: with no
\* property outside the schema's properties nothing changes and no error
\* is reported; with no patternProperties the properties outside the
\* schema's are removed and no error is reported; with patternProperties
\* the value is untouched and one error is reported exactly when some
\* property matches neither the properties nor the patterns.
C30_StripOrReport ==
    (/\ call.op = "soft_validate"
     /\ result.kind = "return"
     /\ call.is_object
     /\ ~call.additional_properties_value) =>
        LET given == call.param_value
            after == result.value.param_value
            errors == result.value.errors
            properties == call.schema.properties
            patternProperties == call.schema.patternProperties
        IN  /\ (DOMAIN given \subseteq properties)
                  => (after = given /\ errors = << >>)
            /\ (patternProperties = << >>)
                  => /\ DOMAIN after = DOMAIN given \cap properties
                     /\ \A prop \in DOMAIN after : after[prop] = given[prop]
                     /\ errors = << >>
            /\ (patternProperties # << >>)
                  => /\ after = given
                     /\ Len(errors) <= 1
                     /\ (Len(errors) = 1)
                          <=> \E prop \in DOMAIN given :
                                 /\ prop \notin properties
                                 /\ ~MatchesPattern(patternProperties, prop)

====
